---------------------------- MODULE Spec2Model ----------------------------
(***************************************************************************)
(* The flags series of js/parts/FlagsSeries.js: translate (attachment to   *)
(* a reference series, axis fallback, stacking), drawPoints, drawTracker   *)
(* and the mouseover handler that raises stacked flags.                    *)
(*                                                                         *)
(* JavaScript values that may be undefined are sequences of length at most *)
(* one: << >> is undefined and <<v>> is the value v.  Pixel y values are   *)
(* exact rationals [n, d], because the interpolation of translate divides. *)
(***************************************************************************)
EXTENDS Integers, Sequences, FiniteSets, TLC

(* ------------------------------ bounds --------------------------------- *)

\* The largest number of flags in the series.
MaxFlags == 3
\* x values of flags and of reference points are 0 .. MaxX.
MaxX == 2
\* The largest number of flags in a series that is drawn and hovered.
MaxDrawn == 4
\* The largest number of mouseover listeners drawTracker has put on one element.
MaxHandlers == 2

(* ----------------------- optional values, rationals -------------------- *)

Undefined == << >>

Def(v) == <<v>>

IsDef(o) == o # Undefined

Val(o) == o[1]

Abs(k) == IF k < 0 THEN -k ELSE k

RECURSIVE Gcd(_, _)
Gcd(a, b) ==
    IF b = 0 THEN a ELSE Gcd(b, a % b)

\* n/d in lowest terms with a positive denominator; d = 0 is kept as 0/0.
Rat(n, d) ==
    IF d = 0 THEN [n |-> 0, d |-> 0]
    ELSE LET s == IF d < 0 THEN -1 ELSE 1
             g == Gcd(Abs(n), Abs(d))
         IN  [n |-> (s * n) \div g, d |-> (s * d) \div g]

Num(k) == [n |-> k, d |-> 1]

RAdd(a, b) == Rat(a.n * b.d + b.n * a.d, a.d * b.d)

RSub(a, b) == Rat(a.n * b.d - b.n * a.d, a.d * b.d)

RMul(a, b) == Rat(a.n * b.n, a.d * b.d)

RDiv(a, b) == Rat(a.n * b.d, a.d * b.n)

(* -------------------------- program constants -------------------------- *)

\* options.stackDistance
stackDistance == 12
\* options.y
optionsY == -30
\* options.lineWidth, which graphic.strokeWidth() returns
lineWidth == 1
\* the pixels a mouseover raises a stacked flag by
RaiseBy == 8

(* ------------------- the chart the series lives in --------------------- *)

\* xAxis.len, the pixel length of the x axis.
xAxisLen == 60
\* chart.chartHeight, xAxis.bottom, xAxis.height, xAxis.offset, yAxis.top.
chartHeight == 300
xAxisBottom == 40
xAxisHeight == 0
xAxisOffset == 0
yAxisTop == 20
\* Whether the x axis is on the opposite side.
xAxisOpposite == FALSE
\* pointXOffset + barW / 2 of a reference series that is a column series.
ColumnXOffset == 5

\* The pixel value of the reference series' channel at x: one value per x,
\* no three on a line, none equal to the axis fallback.
PlotValueAt(x) == 100 + 10 * x * x

\* The reference series' points: strictly ascending x, each with the channel
\* value defined or undefined.
RECURSIVE RefSeqsFrom(_)
RefSeqsFrom(lo) ==
    {<< >>} \cup
    UNION { { <<[x |-> x, val |-> Undefined]>> \o rest
                : rest \in RefSeqsFrom(x + 1) } : x \in lo .. MaxX }
    \cup
    UNION { { <<[x |-> x, val |-> Def(PlotValueAt(x))]>> \o rest
                : rest \in RefSeqsFrom(x + 1) } : x \in lo .. MaxX }

RefSeqs == RefSeqsFrom(0)

\* chart.get(options.onSeries): undefined, or the reference series with its
\* visible flag, options.step, currentDataGrouping.totalRange (0 without
\* grouping), pointXOffset + barW / 2, and points.
OnSeriesOf(vis, st, tr, off, pts) ==
    Def([visible |-> vis, step |-> st, totalRange |-> tr, xOffset |-> off,
         points |-> pts])

\* The x axis extremes the series is translated under.
Extremes == { [min |-> 0, max |-> MaxX], [min |-> 1, max |-> MaxX],
              [min |-> 0, max |-> MaxX - 1] }

ChartOf(os, ext) == [onSeries |-> os, min |-> ext.min, max |-> ext.max]

\* A reference series with a defined value at every x.
FullRef == [k \in 1 .. MaxX + 1 |-> [x |-> k - 1, val |-> Def(PlotValueAt(k - 1))]]

AllOnSeries ==
    {Undefined}
    \cup { OnSeriesOf(TRUE, m[1], m[2], 0, pts) :
             m \in {<<FALSE, 0>>, <<TRUE, 0>>, <<FALSE, 1>>}, pts \in RefSeqs }
    \cup { OnSeriesOf(FALSE, FALSE, 0, 0, FullRef),
           OnSeriesOf(TRUE, FALSE, 0, ColumnXOffset, FullRef) }

AllCharts == { ChartOf(os, ext) : os \in AllOnSeries, ext \in Extremes }

\* The flags' x values in data order.
FlagData == UNION { [1 .. n -> 0 .. MaxX] : n \in 1 .. MaxFlags }

(* ------------------------------- state --------------------------------- *)

VARIABLES
    pt,        \* the point objects of series.data, by position in the data
    points,    \* series.points: the point objects in their current order
    chart,     \* the reference series and axis extremes of the last translate
    handlers,  \* per point, the mouseover listeners on its graphic's element
    phase,     \* where the host is in its redraw: idle, translated or drawn
    placed,    \* history: the y at which drawPoints last planted each flag
    lastOver,  \* history: the last pointer-over since the redraw, if any
    interp     \* history: the interpolations the last translate applied

vars == <<pt, points, chart, handlers, phase, placed, lastOver, interp>>

N == Len(points)

NewPoint(x) ==
    [x |-> x, plotX |-> Undefined, plotY |-> Undefined,
     stackIndex |-> Undefined, shapeArgs |-> "none", graphic |-> Undefined,
     tooltipPos |-> Undefined, raised |-> FALSE, _y |-> Undefined]

InitWith(data, c) ==
    /\ pt = [k \in 1 .. Len(data) |-> NewPoint(data[k])]
    /\ points = [k \in 1 .. Len(data) |-> k]
    /\ chart = c
    /\ handlers = [k \in 1 .. Len(data) |-> 0]
    /\ phase = "idle"
    /\ lastOver = Undefined
    /\ placed = [k \in 1 .. Len(data) |-> Undefined]
    /\ interp = {}

(* ----------------------------- translate ------------------------------- *)

\* xAxis.translate: linear from the extremes onto 0 .. xAxis.len.
ToPixels(x, c) == ((x - c.min) * xAxisLen) \div (c.max - c.min)

\* seriesTypes.column.prototype.translate for one point: it gets its plotX and
\* its column shapeArgs, and plotY is undefined because a flag has no y value.
ColumnTranslate(p, c) ==
    [p EXCEPT !.plotX = Def(ToPixels(p.x, c)), !.plotY = Undefined,
              !.shapeArgs = "column"]

\* The first n points after the column translate.
RECURSIVE ColumnTranslateAll(_, _, _)
ColumnTranslateAll(f, n, c) ==
    IF n = 0 THEN << >>
    ELSE Append(ColumnTranslateAll(f, n - 1, c), ColumnTranslate(f[n], c))

\* series.points is generated again, in data order.
GeneratePoints(f) == [k \in 1 .. Len(f) |-> k]

\* stableSort(points, a.x - b.x): insertion of each point after the points
\* with x at most its own.
RECURSIVE InsertByX(_, _, _)
InsertByX(f, s, k) ==
    IF s = << >> THEN <<k>>
    ELSE IF f[Head(s)].x - f[k].x <= 0 THEN <<Head(s)>> \o InsertByX(f, Tail(s), k)
    ELSE <<k>> \o s

RECURSIVE StableSortByX(_, _)
StableSortByX(f, s) ==
    IF s = << >> THEN << >>
    ELSE InsertByX(f, StableSortByX(f, SubSeq(s, 1, Len(s) - 1)), s[Len(s)])

\* onSeries && onSeries.visible && onData.length
Attaches(c) ==
    /\ IsDef(c.onSeries)
    /\ Val(c.onSeries).visible
    /\ Len(Val(c.onSeries).points) > 0

\* lastX = onData[i - 1].x + (currentDataGrouping ? totalRange : 0)
LastX(os) == os.points[Len(os.points)].x + os.totalRange

\* leftPoint.x <= point.x && leftPoint[onKey] !== undefined
Matches(leftPoint, x) == leftPoint.x <= x /\ IsDef(leftPoint.val)

\* A test that lets every flag through, whatever the upper bound.
NoUpperBound(x, lastX) == TRUE

\* point.x <= lastX
WithinLastX(x, lastX) == x <= lastX

\* leftPoint.x < point.x && !step
Interpolates(leftPoint, x, step) == leftPoint.x < x /\ ~step

\* The index left as the loop test decremented it: the matched reference
\* point is consumed.
ConsumedIndex(i) == i

\* i++ after a match: the same reference point is tested against the next flag
RecheckIndex(i) == i + 1

\* The y distance alone, without the distance ratio.
InterpolationNoRatio(leftPoint, rightPoint, x) ==
    Num(Val(rightPoint.val) - Val(leftPoint.val))

\* the distance ratio times the y distance
Interpolation(leftPoint, rightPoint, x) ==
    RMul(RDiv(Num(x - leftPoint.x), Num(rightPoint.x - leftPoint.x)),
         Num(Val(rightPoint.val) - Val(leftPoint.val)))

\* The body of `if (point.x <= lastX)`: the plotY of a flag at x matched to
\* onData[i] (i counts from 0, as in the code).
BoundPlotY(x, onData, i, step) ==
    LET leftPoint == onData[i + 1]
        base == Num(Val(leftPoint.val))
    IN  IF Interpolates(leftPoint, x, step)
           /\ i + 2 <= Len(onData)
           /\ IsDef(onData[i + 2].val)
        THEN RAdd(base, Interpolation(leftPoint, onData[i + 2], x))
        ELSE base

AppliesInterpolation(x, onData, i, step) ==
    /\ Interpolates(onData[i + 1], x, step)
    /\ i + 2 <= Len(onData)
    /\ IsDef(onData[i + 2].val)

\* while (i-- && points[cursor]) { ... }: st is the state at the loop test,
\* with the points in st.f, the order in s and the applied interpolations
\* in st.log.
RECURSIVE AttachLoop(_, _, _, _, _)
AttachLoop(st, s, cursor, i, os) ==
    IF i = 0 \/ cursor < 0 THEN st
    ELSE LET j == i - 1
             k == s[cursor + 1]
             x == st.f[k].x
             leftPoint == os.points[j + 1]
         IN  IF Matches(leftPoint, x)
             THEN LET st2 ==
                        IF WithinLastX(x, LastX(os))
                        THEN [f |-> [st.f EXCEPT ![k].plotY =
                                        Def(BoundPlotY(x, os.points, j, os.step))],
                              log |-> IF AppliesInterpolation(x, os.points, j, os.step)
                                      THEN st.log \cup
                                           {[point |-> k, left |-> j + 1,
                                             right |-> j + 2]}
                                      ELSE st.log]
                        ELSE st
                  IN  IF cursor - 1 < 0 THEN st2
                      ELSE AttachLoop(st2, s, cursor - 1, RecheckIndex(j), os)
             ELSE AttachLoop(st, s, cursor, j, os)

\* chart.chartHeight - xAxis.bottom - (xAxis.opposite ? xAxis.height : 0)
\*   + xAxis.offset - yAxis.top
AxisPlotY ==
    chartHeight - xAxisBottom - (IF xAxisOpposite THEN xAxisHeight ELSE 0)
        + xAxisOffset - yAxisTop

\* if (point.plotY === undefined) { inside the extremes: the axis; else
\* shapeArgs = {} }
Fallback(p, c) ==
    IF p.plotY = Undefined
    THEN IF p.x >= c.min /\ p.x <= c.max
         THEN [p EXCEPT !.plotY = Def(Num(AxisPlotY))]
         ELSE [p EXCEPT !.shapeArgs = "empty"]
    ELSE p

\* A comparison that never finds two flags at the same x.
SameColumnNever(lastPoint, point) == FALSE

\* lastPoint && lastPoint.plotX === point.plotX
SameColumn(lastPoint, point) == lastPoint.plotX = point.plotX

\* lastPoint.stackIndex after `if (lastPoint.stackIndex === undefined)
\* lastPoint.stackIndex = 0`
BaseStackIndex(lastPoint) ==
    IF lastPoint.stackIndex = Undefined THEN Def(0) ELSE lastPoint.stackIndex

\* stackIndex = lastPoint.stackIndex + 1
StackAbove(lastPoint) == Def(Val(lastPoint.stackIndex) + 1)

\* each(points, function (point, i) { ... }) from position n of the order s.
RECURSIVE PlaceLoop(_, _, _, _, _)
PlaceLoop(f, s, n, c, xOffset) ==
    IF n > Len(s) THEN f
    ELSE LET k == s[n]
             p1 == Fallback(f[k], c)
             p2 == [p1 EXCEPT !.plotX = Def(Val(p1.plotX) + xOffset)]
         IN  IF n > 1 /\ SameColumn(f[s[n - 1]], p2)
             THEN LET l == s[n - 1]
                      last == [f[l] EXCEPT !.stackIndex = BaseStackIndex(f[l])]
                  IN  PlaceLoop([f EXCEPT ![l] = last,
                                          ![k] = [p2 EXCEPT !.stackIndex =
                                                     StackAbove(last)]],
                                s, n + 1, c, xOffset)
             ELSE PlaceLoop([f EXCEPT ![k] = [p2 EXCEPT !.stackIndex = Undefined]],
                            s, n + 1, c, xOffset)

\* stableSort(points, ...) of the attached branch
SortedOrder(f, s) == StableSortByX(f, s)

\* translate under the chart c.
Translate(c) ==
    \E f0 \in {ColumnTranslateAll(pt, Len(pt), c)} :
    \E s1 \in {IF Attaches(c) THEN SortedOrder(f0, GeneratePoints(f0))
                ELSE GeneratePoints(f0)} :
    \E st \in {IF Attaches(c)
                THEN AttachLoop([f |-> f0, log |-> {}], s1, Len(s1) - 1,
                                Len(Val(c.onSeries).points), Val(c.onSeries))
                ELSE [f |-> f0, log |-> {}]} :
        /\ pt' = PlaceLoop(st.f, s1, 1, c,
                           IF Attaches(c) THEN Val(c.onSeries).xOffset ELSE 0)
        /\ points' = s1
        /\ chart' = c
        /\ interp' = st.log
        /\ UNCHANGED <<handlers, placed>>

(* ----------------------------- drawPoints ------------------------------ *)

\* yAxis.pos and chart.plotTop, for the tooltip anchor.
yAxisPos == 20
plotTop == 20

\* renderer.label(...) for the point k: a new object, distinct from every
\* label that exists.  The label of the point k is k or Len(f) + k, so that
\* a label created while the point still has one differs from that one.
NewId(f, k) ==
    IF IsDef(f[k].graphic) /\ Val(f[k].graphic).id = k THEN Len(f) + k ELSE k

\* The planted y without the stack term.
DrawYNoStack(p) == RAdd(Val(p.plotY), Num(optionsY))

\* plotY = point.plotY + optionsY
\*           - (stackIndex !== undefined && stackIndex * options.stackDistance)
DrawY(p) ==
    RSub(RAdd(Val(p.plotY), Num(optionsY)),
         Num(IF IsDef(p.stackIndex) THEN Val(p.stackIndex) * stackDistance ELSE 0))

\* An anchor for every flag, stacked or not.
AnchorAlways(p, v) == v

\* anchorX = stackIndex ? undefined : point.plotX (anchorY likewise): 0 and
\* undefined are both falsy.
Anchor(p, v) ==
    IF IsDef(p.stackIndex) /\ Val(p.stackIndex) # 0 THEN Undefined ELSE v

\* plotY !== undefined && plotX >= 0 && !outsideRight
Visible(p) ==
    /\ IsDef(p.plotY)
    /\ IsDef(p.plotX) /\ Val(p.plotX) >= 0
    /\ ~(Val(p.plotX) > xAxisLen)

\* A label created on every draw.
CreatesAlways(p) == TRUE

\* if (!graphic): a label is created only for a point that has none
Creates(p) == p.graphic = Undefined

\* if (plotX > 0) plotX -= graphic.strokeWidth() % 2
DrawX(p) ==
    IF Val(p.plotX) > 0 THEN Val(p.plotX) - (lineWidth % 2) ELSE Val(p.plotX)

\* The body of the while loop of drawPoints for the point k: d holds the
\* points in d.f, the listeners in d.h and the planted y values in d.y.
DrawPoint(d, k) ==
    LET p == d.f[k] IN
    IF Visible(p)
    THEN LET id == IF Creates(p) THEN NewId(d.f, k) ELSE Val(p.graphic).id
             g == [id |-> id, x |-> DrawX(p), y |-> DrawY(p),
                   anchorX |-> Anchor(p, p.plotX),
                   anchorY |-> Anchor(p, p.plotY)]
         IN  [f |-> [d.f EXCEPT ![k].graphic = Def(g),
                                ![k].tooltipPos =
                                    Def(<<Num(g.x),
                                          RAdd(g.y, Num(yAxisPos - plotTop))>>)],
              h |-> IF Creates(p) THEN [d.h EXCEPT ![k] = 0] ELSE d.h,
              y |-> [d.y EXCEPT ![k] = Def(g.y)]]
    ELSE IF IsDef(p.graphic)
    THEN [f |-> [d.f EXCEPT ![k].graphic = Undefined],
          h |-> [d.h EXCEPT ![k] = 0],
          y |-> [d.y EXCEPT ![k] = Undefined]]
    ELSE d

\* i = points.length; while (i--) { ... }
RECURSIVE DrawLoop(_, _, _)
DrawLoop(d, s, i) ==
    IF i = 0 THEN d ELSE DrawLoop(DrawPoint(d, s[i]), s, i - 1)

\* drawPoints; options.useHTML is not set, so markerGroup.on is not wrapped.
DrawPoints ==
    \E d \in {DrawLoop([f |-> pt, h |-> handlers, y |-> placed], points, N)} :
        /\ pt' = d.f
        /\ handlers' = d.h
        /\ placed' = d.y
        /\ UNCHANGED <<points, chart, interp>>

(* ------------------------- drawTracker, mouseover ---------------------- *)

\* each(points, ...): addEvent(graphic.element, 'mouseover', ...) for every
\* point that has a graphic.  Listeners past MaxHandlers are not counted.
DrawTracker ==
    /\ handlers' = [k \in DOMAIN pt |->
                       IF IsDef(pt[k].graphic) /\ handlers[k] < MaxHandlers
                       THEN handlers[k] + 1 ELSE handlers[k]]
    /\ UNCHANGED <<pt, points, chart, placed, interp>>

\* point.stackIndex > 0 && !point.raised
Raises(p) == IsDef(p.stackIndex) /\ Val(p.stackIndex) > 0 /\ ~p.raised

\* Raise this point: point._y = graphic.y; graphic.attr({ y: point._y - 8 })
Raise(p) ==
    IF Raises(p)
    THEN [p EXCEPT !._y = Def(Val(p.graphic).y),
                   !.graphic = Def([Val(p.graphic) EXCEPT
                                       !.y = RSub(Val(p.graphic).y, Num(RaiseBy))]),
                   !.raised = TRUE]
    ELSE p

\* Revert other raised points
Revert(o) ==
    IF o.raised /\ IsDef(o.graphic)
    THEN [o EXCEPT !.graphic = Def([Val(o.graphic) EXCEPT !.y = Val(o._y)]),
                   !.raised = FALSE]
    ELSE o

\* each(points, function (otherPoint) { ... }) from position n of the order s
RECURSIVE RevertLoop(_, _, _, _)
RevertLoop(f, s, k, n) ==
    IF n > Len(s) THEN f
    ELSE RevertLoop(IF s[n] # k THEN [f EXCEPT ![s[n]] = Revert(f[s[n]])] ELSE f,
                    s, k, n + 1)

\* One listener of the point k's graphic runs.
Handler(f, s, k) == RevertLoop([f EXCEPT ![k] = Raise(f[k])], s, k, 1)

\* The element's n listeners run one after the other.
RECURSIVE RunHandlers(_, _, _, _)
RunHandlers(f, s, k, n) ==
    IF n = 0 THEN f ELSE RunHandlers(Handler(f, s, k), s, k, n - 1)

\* A mouseover event on the graphic of the point k.
MouseOver(k) ==
    /\ IsDef(pt[k].graphic)
    /\ handlers[k] > 0
    /\ pt' = RunHandlers(pt, points, k, handlers[k])
    /\ UNCHANGED <<points, chart, handlers, placed, interp>>

(* --------------------- the series in a redrawn chart ------------------- *)

\* The flags of a drawn series: a stack of h[1] flags at x = 0 followed by a
\* stack of h[2] flags at x = MaxX, at most MaxDrawn flags in all (a stack of
\* one is an unstacked flag).
DrawnData ==
    { [k \in 1 .. h[1] + h[2] |-> IF k <= h[1] THEN 0 ELSE MaxX] :
        h \in { g \in (0 .. MaxDrawn) \X (0 .. MaxDrawn) :
                  g[1] + g[2] >= 1 /\ g[1] + g[2] <= MaxDrawn } }

\* The charts a redraw translates the series under.
RedrawCharts ==
    { ChartOf(Undefined, [min |-> 0, max |-> MaxX]),
      ChartOf(Undefined, [min |-> 1, max |-> MaxX]),
      ChartOf(OnSeriesOf(TRUE, FALSE, 0, 0, FullRef), [min |-> 0, max |-> MaxX - 1]) }

Init ==
    \E data \in DrawnData :
        InitWith(data, ChartOf(Undefined, [min |-> 0, max |-> MaxX]))

\* Series.redraw of the host: translate, then render, which calls drawPoints
\* and then drawTracker; pointer events are dispatched between redraws.
HostTranslate ==
    /\ phase = "idle"
    /\ \E c \in RedrawCharts : Translate(c)
    /\ phase' = "translated"
    /\ lastOver' = Undefined

HostDrawPoints ==
    /\ phase \in {"translated", "drawn"}
    /\ DrawPoints
    /\ phase' = "drawn"
    /\ UNCHANGED lastOver

HostDrawTracker ==
    /\ phase = "drawn"
    /\ DrawTracker
    /\ phase' = "idle"
    /\ UNCHANGED lastOver

PointerOver ==
    /\ phase = "idle"
    /\ \E k \in DOMAIN pt :
          /\ MouseOver(k)
          /\ lastOver' = Def([point |-> k,
                              raised |-> { q \in DOMAIN pt : pt[q].raised }])
    /\ UNCHANGED phase

Next ==
    \/ HostTranslate
    \/ HostDrawPoints
    \/ HostDrawTracker
    \/ PointerOver

Spec == Init /\ [][Next]_vars

(* ------------- translate alone, over all flags and charts -------------- *)

InitTranslate == \E data \in FlagData, c \in AllCharts : InitWith(data, c)

TranslateChart == Translate(chart) /\ UNCHANGED <<phase, lastOver>>

NextTranslate == TranslateChart

SpecTranslate == InitTranslate /\ [][NextTranslate]_vars

(* ------------------------ claims about translate ----------------------- *)

\* translate has run: every point has its pixel x.
Translated == \A k \in DOMAIN pt : IsDef(pt[k].plotX)

Max(S) == CHOOSE m \in S : \A n \in S : n <= m

\* The highest index of a reference point with x <= the flag's x and a
\* defined channel value; 0 when there is none.
LeftIndex(onData, x) ==
    LET S == { j \in 1 .. Len(onData) : onData[j].x <= x /\ IsDef(onData[j].val) }
    IN  IF S = {} THEN 0 ELSE Max(S)

\* y lies on the line through the reference points l and r, at x.
OnLine(y, l, r, x) ==
    RMul(RSub(y, Num(Val(l.val))), Num(r.x - l.x))
        = Num((x - l.x) * (Val(r.val) - Val(l.val)))

\* C1: under a visible, non-empty reference series every flag at or below the
\* upper bound and at or above a reference point with a defined value is
\* placed from the highest-indexed such reference point: on the line to the
\* next point where translate interpolates, at the point's own value
\* otherwise, and exactly at it when the x values are equal.
C1_BoundToNearestLeft ==
    (Translated /\ Attaches(chart)) =>
        \A k \in DOMAIN pt :
            LET os == Val(chart.onSeries)
                x == pt[k].x
                L == LeftIndex(os.points, x)
            IN  (x <= LastX(os) /\ L > 0) =>
                    /\ IsDef(pt[k].plotY)
                    /\ LET l == os.points[L]
                           y == Val(pt[k].plotY)
                       IN  IF l.x < x /\ ~os.step /\ L < Len(os.points)
                              /\ IsDef(os.points[L + 1].val)
                           THEN OnLine(y, l, os.points[L + 1], x)
                           ELSE y = Num(Val(l.val))
                    /\ (os.points[L].x = x =>
                            pt[k].plotY = Def(Num(Val(os.points[L].val))))

\* C1 witness: three flags, two of them matching the same reference point and
\* one exactly on a reference point, all bound.
C1_Witness ==
    /\ Translated /\ Attaches(chart)
    /\ \E a, b, d \in DOMAIN pt :
        LET os == Val(chart.onSeries) IN
        /\ a # b /\ b # d /\ a # d
        /\ pt[a].x = pt[b].x
        /\ LeftIndex(os.points, pt[a].x) > 0
        /\ os.points[LeftIndex(os.points, pt[a].x)].x < pt[a].x
        /\ pt[a].x <= LastX(os)
        /\ IsDef(pt[a].plotY) /\ pt[a].plotY = pt[b].plotY
        /\ \E j \in 1 .. Len(os.points) :
              /\ os.points[j].x = pt[d].x
              /\ pt[d].plotY = Def(Num(Val(os.points[j].val)))

\* C2: with step off, a flag strictly between two adjacent reference points
\* with defined values lies on the line between them, and every
\* interpolation translate applied had left.x < flag.x < right.x.
C2_LinearInterpolation ==
    (Translated /\ Attaches(chart)) =>
        LET os == Val(chart.onSeries) IN
        /\ \A k \in DOMAIN pt : \A j \in 1 .. Len(os.points) - 1 :
              LET l == os.points[j]
                  r == os.points[j + 1]
              IN  (~os.step /\ IsDef(l.val) /\ IsDef(r.val)
                   /\ l.x < pt[k].x /\ pt[k].x < r.x) =>
                      /\ IsDef(pt[k].plotY)
                      /\ OnLine(Val(pt[k].plotY), l, r, pt[k].x)
        /\ \A e \in interp :
              /\ os.points[e.left].x < pt[e.point].x
              /\ pt[e.point].x < os.points[e.right].x

\* C2 witness: translate interpolated, and the result is no pixel value of
\* the reference series.
C2_Witness ==
    /\ Translated /\ Attaches(chart)
    /\ \E e \in interp :
          /\ IsDef(pt[e.point].plotY)
          /\ Val(pt[e.point].plotY) # Num(Val(Val(chart.onSeries).points[e.left].val))
          /\ Val(pt[e.point].plotY) # Num(Val(Val(chart.onSeries).points[e.right].val))

\* The flag at k is beyond the reference series' upper bound.
BeyondLastX(k) ==
    /\ IsDef(chart.onSeries)
    /\ Len(Val(chart.onSeries).points) > 0
    /\ pt[k].x > LastX(Val(chart.onSeries))

InExtremes(k) == pt[k].x >= chart.min /\ pt[k].x <= chart.max

\* C3: a flag beyond the last reference x plus totalRange is on the axis when
\* its x is within the extremes, and otherwise has no plotY and empty
\* shapeArgs.
C3_BeyondUpperBoundUnbound ==
    Translated =>
        \A k \in DOMAIN pt :
            BeyondLastX(k) =>
                IF InExtremes(k)
                THEN pt[k].plotY = Def(Num(AxisPlotY)) /\ pt[k].shapeArgs = "column"
                ELSE pt[k].plotY = Undefined /\ pt[k].shapeArgs = "empty"

\* C3 witness: under one visible reference series, a flag beyond the bound on
\* the axis, one beyond the bound and outside the extremes, and a flag with a
\* smaller x bound to the reference series.
C3_Witness ==
    /\ Translated /\ Attaches(chart)
    /\ \E a, b, d \in DOMAIN pt :
          /\ BeyondLastX(a) /\ InExtremes(a) /\ pt[a].plotY = Def(Num(AxisPlotY))
          /\ BeyondLastX(b) /\ ~InExtremes(b) /\ pt[b].plotY = Undefined
          /\ ~BeyondLastX(d) /\ IsDef(pt[d].plotY)
          /\ pt[d].plotY # Def(Num(AxisPlotY))

\* The point at position n of the final order.
At(n) == pt[points[n]]

Rank(p) == IF IsDef(p.stackIndex) THEN Val(p.stackIndex) ELSE 0

\* C4: of any two flags with the same plotX, the later in the final order has
\* its predecessor's stackIndex plus one.
C4_CoincidentFlagsStacked ==
    Translated =>
        \A i, j \in 1 .. N :
            (i < j /\ At(i).plotX = At(j).plotX) =>
                At(j).stackIndex = Def(Rank(At(j - 1)) + 1)

SameAsPrevious(n) == n > 1 /\ At(n - 1).plotX = At(n).plotX

SameAsNext(n) == n < N /\ At(n + 1).plotX = At(n).plotX

\* C5 as stated: stackIndex is defined only when the preceding point has the
\* same plotX.
C5_DefinedOnlyAbovePredecessor ==
    Translated =>
        \A n \in 1 .. N : IsDef(At(n).stackIndex) => SameAsPrevious(n)

\* C5 amended: stackIndex is above 0 exactly when the preceding point has the
\* same plotX, and then it is the predecessor's rank plus one; otherwise it
\* is 0 at the base of a stack and undefined elsewhere.
C5_PositiveOnlyAbovePredecessor ==
    Translated =>
        \A n \in 1 .. N :
            IF SameAsPrevious(n)
            THEN At(n).stackIndex = Def(Rank(At(n - 1)) + 1)
            ELSE IF SameAsNext(n)
            THEN At(n).stackIndex = Def(0)
            ELSE At(n).stackIndex = Undefined

\* C5 witness: a stack of three: ranks 0, 1 and 2, beside an unstacked flag.
C5_Witness ==
    /\ Translated
    /\ \E n \in 1 .. N - 2 :
          /\ At(n).stackIndex = Def(0)
          /\ At(n + 1).stackIndex = Def(1)
          /\ At(n + 2).stackIndex = Def(2)

(* ------------------ claims about drawPoints and hovering --------------- *)

\* The y of the point k's graphic.
GraphicY(p) == Val(p.graphic).y

\* C6: drawPoints plants every drawn flag at plotY + options.y - stackIndex *
\* stackDistance (no stack term without a stackIndex) and changes no point's
\* plotY, plotX or stackIndex.
C6_DrawnAtStackOffset ==
    [][DrawPoints =>
        \A k \in DOMAIN pt :
            /\ pt'[k].plotY = pt[k].plotY
            /\ pt'[k].plotX = pt[k].plotX
            /\ pt'[k].stackIndex = pt[k].stackIndex
            /\ IsDef(pt'[k].graphic) =>
                  GraphicY(pt'[k]) =
                      RSub(RAdd(Val(pt[k].plotY), Num(optionsY)),
                           Num(Rank(pt[k]) * stackDistance))]_vars

\* C6 witness: three flags at one x drawn at the base y, 12 and 24 above it.
C6_Witness ==
    /\ phase = "drawn"
    /\ \E a, b, d \in DOMAIN pt :
          /\ pt[a].stackIndex = Def(0) /\ pt[b].stackIndex = Def(1)
          /\ pt[d].stackIndex = Def(2)
          /\ pt[a].plotX = pt[b].plotX /\ pt[b].plotX = pt[d].plotX
          /\ IsDef(pt[a].graphic) /\ IsDef(pt[b].graphic) /\ IsDef(pt[d].graphic)
          /\ GraphicY(pt[a]) = RAdd(Val(pt[a].plotY), Num(optionsY))
          /\ GraphicY(pt[b]) = RSub(GraphicY(pt[a]), Num(stackDistance))
          /\ GraphicY(pt[d]) = RSub(GraphicY(pt[a]), Num(2 * stackDistance))

Stacked(p) == IsDef(p.stackIndex) /\ Val(p.stackIndex) > 0

\* C7: once drawPoints has run after a translate, a drawn flag has no anchor
\* exactly when its stackIndex is above 0; every other drawn flag is anchored
\* at its plotX and plotY.
C7_OnlyBaseAnchored ==
    phase # "translated" =>
        \A k \in DOMAIN pt :
            IsDef(pt[k].graphic) =>
                LET g == Val(pt[k].graphic) IN
                IF Stacked(pt[k])
                THEN g.anchorX = Undefined /\ g.anchorY = Undefined
                ELSE /\ g.anchorX = pt[k].plotX /\ IsDef(g.anchorX)
                     /\ g.anchorY = pt[k].plotY /\ IsDef(g.anchorY)

\* C7 witness: a drawn stack whose base is anchored and whose rank-1 flag is
\* not, beside a drawn unstacked flag that is anchored.
C7_Witness ==
    /\ phase = "drawn"
    /\ \E a, b, d \in DOMAIN pt :
          /\ pt[a].stackIndex = Def(0) /\ pt[b].stackIndex = Def(1)
          /\ pt[a].plotX = pt[b].plotX
          /\ pt[d].stackIndex = Undefined
          /\ IsDef(pt[a].graphic) /\ IsDef(pt[b].graphic) /\ IsDef(pt[d].graphic)
          /\ Val(pt[a].graphic).anchorY = pt[a].plotY
          /\ Val(pt[b].graphic).anchorX = Undefined
          /\ Val(pt[d].graphic).anchorX = pt[d].plotX

\* The point may be drawn: plotY is defined and 0 <= plotX <= xAxis.len.
InView(p) ==
    /\ IsDef(p.plotY)
    /\ IsDef(p.plotX)
    /\ 0 <= Val(p.plotX) /\ Val(p.plotX) <= xAxisLen

\* C8: after drawPoints a point has a graphic exactly when it is in view; a
\* graphic that exists before and after the call is the same object; an
\* unattached flag outside the axis extremes has none.
C8_GraphicIffInView ==
    [][DrawPoints =>
        \A k \in DOMAIN pt :
            /\ IsDef(pt'[k].graphic) <=> InView(pt'[k])
            /\ (IsDef(pt[k].graphic) /\ IsDef(pt'[k].graphic)) =>
                  Val(pt'[k].graphic).id = Val(pt[k].graphic).id
            /\ (~Attaches(chart) /\ ~InExtremes(k)) => pt'[k].graphic = Undefined]_vars

\* C8 witness: after a draw, a flag in view whose graphic already carried a
\* listener (it was updated in place), and an unattached flag outside the
\* extremes that was raised once and has lost its graphic.
C8_Witness ==
    /\ phase = "drawn"
    /\ \E a, b \in DOMAIN pt :
          /\ IsDef(pt[a].graphic) /\ handlers[a] > 0 /\ InView(pt[a])
          /\ ~Attaches(chart) /\ ~InExtremes(b)
          /\ pt[b].graphic = Undefined
          /\ IsDef(pt[b]._y)

\* C9: at most one point of the series is raised.
C9_AtMostOneRaised ==
    Cardinality({ k \in DOMAIN pt : pt[k].raised }) <= 1

\* C10: right after a pointer-over on a drawn marker with stackIndex > 0 the
\* marker is 8 pixels above the y at which drawPoints last planted it, and
\* every other marker that was raised before the event is back at its planted
\* y and no longer raised.
C10_RaisedByEight ==
    \A k \in DOMAIN pt :
        (IsDef(lastOver) /\ Val(lastOver).point = k /\ Stacked(pt[k])) =>
            /\ GraphicY(pt[k]) = RSub(Val(placed[k]), Num(RaiseBy))
            /\ \A q \in Val(lastOver).raised \ {k} :
                  IsDef(pt[q].graphic) =>
                      /\ ~pt[q].raised
                      /\ GraphicY(pt[q]) = Val(placed[q])

=============================================================================
